---- MODULE Spec2Model ----
(***************************************************************************)
(* The fact feed of src/src/App.js: the App component (visible list,       *)
(* loading flag, selected category, form switch), the NewFactForm and Fact *)
(* components with their local state, and the remote `facts` table the     *)
(* three handlers talk to.  A remote call is a message: the handler runs   *)
(* up to its `await`, the store answers the request at some later moment,  *)
(* and the handler resumes when the answer is delivered.  Several calls    *)
(* may be pending and are answered and delivered in any order.             *)
(***************************************************************************)
EXTENDS Bags, FiniteSets, Integers, Sequences, TLC

\* ---------------------------------------------------------------- bounds

\* Remote calls started in one run (the fetch at mount included) when the
\* user also works with the form; one more when the form is left alone.
MaxRequests == 3

\* ------------------------------------------------------ program constants

\* .limit(100)
Limit == 100
\* textLength <= 1000
MaxTextLength == 1000

CATEGORIES ==
  {"technology", "science", "finance", "society",
   "entertainment", "health", "history", "news"}

\* The categories the modelled user clicks on and the rows are in.
UsedCategories == {c \in CATEGORIES : c \in {"technology", "science"}}

\* The vote columns of a row.
Columns == {"votesInteresting", "votesMindblowing", "votesFalse"}

\* ------------------------------------------------------------- input data

\* A text is modelled by its number of characters (text.length).
InputTexts == {0, MaxTextLength, MaxTextLength + 1}
ValidTexts == {MaxTextLength}

\* A source string is a sequence of lexical pieces: scheme, ":" and the rest.
HttpsSource == <<"https", ":", "//example.com">>
FtpSource == <<"ftp", ":", "//example.com">>
InputSources == {<<>>, HttpsSource, FtpSource}
ValidSources == {HttpsSource}

\* The category the modelled user posts in.
PostCategories == {"science"}
InputCategories == {""} \cup PostCategories

VARIABLES
  mounted,          \* the App component has run its first effect
  showForm,         \* App: useState(false)
  facts,            \* App: useState([]), the visible list
  isLoading,        \* App: useState(false)
  currentCategory,  \* App: useState('all')
  text,             \* NewFactForm: useState('')
  source,           \* NewFactForm: useState('')
  category,         \* NewFactForm: useState('')
  isUploading,      \* NewFactForm: useState(false)
  isUpdating,       \* ids of the mounted Fact components whose isUpdating is true
  store,            \* the remote table: store[i] is the row with id i
  selects,          \* bag of select calls awaited by getFacts
  inserts,          \* bag of insert calls awaited by handleSubmit
  updates,          \* bag of update calls awaited by handleVote
  alerts,           \* number of alert() calls so far
  requestCount      \* remote calls started so far

vars ==
  <<mounted, showForm, facts, isLoading, currentCategory, text, source,
    category, isUploading, isUpdating, store, selects, inserts, updates,
    alerts, requestCount>>

appVars == <<showForm, facts, isLoading, currentCategory>>
formVars == <<text, source, category, isUploading>>

\* ------------------------------------------------------------------ rows

NewRow(id, t, s, c) ==
  [id |-> id, text |-> t, source |-> s, category |-> c,
   votesInteresting |-> 0, votesMindblowing |-> 0, votesFalse |-> 0]

\* The tables the page may be opened on: two rows, the first in "technology"
\* with one interesting vote, the second in any used category with none.
InitialStores ==
  {<<[NewRow(1, 1, HttpsSource, "technology") EXCEPT !.votesInteresting = 1],
     NewRow(2, 1, HttpsSource, c)>> : c \in UsedCategories}

\* ------------------------------------------------------- the remote store

Min(a, b) == IF a <= b THEN a ELSE b

\* The query without its .eq('category', ...) filter.
MatchingUnfiltered(rows, cat) == 1..Len(rows)

\* .eq('category', currentCategory), applied only when the category is not 'all'
Matching(rows, cat) ==
  {i \in 1..Len(rows) : cat = "all" \/ rows[i].category = cat}

\* .order('votesInteresting', { ascending: true }): the orders the store may
\* return the matching rows in (rows with equal votes come in any order).
Orderings(rows, ids) ==
  {f \in [1..Cardinality(ids) -> ids] :
     /\ \A i, j \in 1..Cardinality(ids) : i # j => f[i] # f[j]
     /\ \A i, j \in 1..Cardinality(ids) :
          i < j => rows[f[i]].votesInteresting <= rows[f[j]].votesInteresting}

\* select('*') [.eq] .order(...).limit(100): the possible answers of the store.
QueryResults(rows, cat) ==
  LET ids == Matching(rows, cat)
      n == Min(Cardinality(ids), Limit)
  IN  {[i \in 1..n |-> rows[f[i]]] : f \in Orderings(rows, ids)}

\* insert([{ text, source, category }]).select(): the store assigns the next
\* identifier and the vote columns take their default, 0.
InsertedRow(rows, t, s, c) == NewRow(Len(rows) + 1, t, s, c)

\* An update that adds one to the stored value (an increment carried out by
\* the store), whatever value the call carries.
UpdatedStoreIncrement(rows, id, columnName, value) ==
  [rows EXCEPT ![id] = [@ EXCEPT ![columnName] = @ + 1]]

\* update({ [columnName]: value }).eq('id', id): the table after the update.
UpdatedStore(rows, id, columnName, value) ==
  [rows EXCEPT ![id] = [@ EXCEPT ![columnName] = value]]

\* ----------------------------------------------------- pure client helpers

\* new URL(string): an absolute URL has a scheme, ":" and something after it.
Schemes == {"http", "https", "ftp"}

URL(string) ==
  IF Len(string) >= 3 /\ string[2] = ":" /\ string[1] \in Schemes
  THEN [ok |-> TRUE, protocol |-> <<string[1], ":">>]
  ELSE [ok |-> FALSE, protocol |-> <<>>]

\* The check without the comparison of the protocol.
isValidAnyUrl(string) == URL(string).ok

isValidHttpUrl(string) ==
  LET url == URL(string)
  IN  IF ~url.ok THEN FALSE
      ELSE url.protocol = <<"http", ":">> \/ url.protocol = <<"https", ":">>

\* text && isValidHttpUrl(source) && category && textLength <= 1000
SubmitValid(t, s, c) ==
  /\ t # 0
  /\ isValidHttpUrl(s)
  /\ c # ""
  /\ t <= MaxTextLength

\* The comparison with <= in place of <.
isDisputedOrEqual(fact) ==
  fact.votesInteresting + fact.votesMindblowing <= fact.votesFalse

\* fact.votesInteresting + fact.votesMindblowing < fact.votesFalse
isDisputed(fact) ==
  fact.votesInteresting + fact.votesMindblowing < fact.votesFalse

\* [...facts, newFact[0]]
Appended(newFact, fs) == fs \o <<newFact>>

\* [newFact[0], ...facts]
Prepend(newFact, fs) == <<newFact>> \o fs

\* facts.map((f) => updatedFact[0]): the map without the test of the id.
PatchAll(fs, id, updatedFact) == [p \in 1..Len(fs) |-> updatedFact]

\* facts.map((f) => (f.id === fact.id ? updatedFact[0] : f))
Patch(fs, id, updatedFact) ==
  [p \in 1..Len(fs) |-> IF fs[p].id = id THEN updatedFact ELSE fs[p]]

\* fact[columnName] + 2
VoteValueTwice(fact, columnName) == fact[columnName] + 2

\* fact[columnName] + 1
VoteValue(fact, columnName) == fact[columnName] + 1

\* The Fact components on screen: one per key of the list, none while the
\* Loader is shown in place of the FactList.
MountedIds(fs, loading) ==
  IF loading THEN {} ELSE {fs[p].id : p \in 1..Len(fs)}

\* Two entries of the list carry the key id.
DuplicateKey(fs, id) ==
  \E p, q \in 1..Len(fs) : p # q /\ fs[p].id = id /\ fs[q].id = id

\* A pending call whose component was unmounted: its local setters do nothing.
Orphan(r) == [r EXCEPT !.live = FALSE]

\* The update calls after a render that shows the Fact components `ids`:
\* the calls started by a component no longer on screen are orphaned.
Rerendered(calls, ids) ==
  BagOfAll(LAMBDA r : IF r.id \in ids THEN r ELSE Orphan(r), calls)

\* ------------------------------------------------------------ remote calls

\* A call is "sent" until the store has carried it out and "answered" once
\* its rows are on their way back.  The awaiting handler resumes either with
\* the rows of an answered call or with an error; an error can come at any
\* moment of the call (request refused, or answer lost on the way back).
SelectCall(cat) == [category |-> cat, phase |-> "sent", data |-> <<>>]

InsertCall(t, s, c) ==
  [text |-> t, source |-> s, category |-> c, phase |-> "sent", data |-> <<>>]

UpdateCall(id, columnName, value) ==
  [id |-> id, columnName |-> columnName, value |-> value, live |-> TRUE,
   phase |-> "sent", data |-> <<>>]

Answered(r, rows) == [r EXCEPT !.phase = "answered", !.data = rows]

Sent(calls) == {r \in BagToSet(calls) : r.phase = "sent"}
Replace(calls, r, a) == (calls (-) SetToBag({r})) (+) SetToBag({a})

\* What an await can resume with: { data, error: null } once answered,
\* { data: null, error } at any time.
CanResume(calls, r, error) ==
  /\ r \in BagToSet(calls)
  /\ error \/ r.phase = "answered"

\* ------------------------------------------------------------------- Init

Init ==
  /\ mounted = FALSE
  /\ showForm = FALSE
  /\ facts = <<>>
  /\ isLoading = FALSE
  /\ currentCategory = "all"
  /\ text = 0
  /\ source = <<>>
  /\ category = ""
  /\ isUploading = FALSE
  /\ isUpdating = {}
  /\ store \in InitialStores
  /\ selects = EmptyBag
  /\ inserts = EmptyBag
  /\ updates = EmptyBag
  /\ alerts = 0
  /\ requestCount = 0

\* ------------------------------------------------------- the feed (App)

\* getFacts() up to its await with setIsLoading(true) left out: the query is
\* sent and the FactList stays on screen.
getFactsUnflagged(cat) ==
  /\ isLoading' = isLoading
  /\ selects' = selects (+) SetToBag({SelectCall(cat)})
  /\ isUpdating' = isUpdating
  /\ updates' = updates
  /\ requestCount' = requestCount + 1

\* getFacts() up to its await: setIsLoading(true) puts the Loader in place of
\* the FactList, which unmounts every Fact component, and the query is sent.
getFacts(cat) ==
  /\ isLoading' = TRUE
  /\ selects' = selects (+) SetToBag({SelectCall(cat)})
  /\ isUpdating' = {}
  /\ updates' = Rerendered(updates, {})
  /\ requestCount' = requestCount + 1

\* The effect of the first render.
Mount ==
  /\ ~mounted
  /\ mounted' = TRUE
  /\ getFacts(currentCategory)
  /\ UNCHANGED <<showForm, facts, currentCategory, formVars, store, inserts, alerts>>

\* A click in the CategoryFilter with the effect run after every click, as it
\* would be without the dependency array.
setCurrentCategoryAlways(cat) ==
  /\ mounted
  /\ currentCategory' = cat
  /\ getFacts(cat)
  /\ UNCHANGED <<mounted, showForm, facts, formVars, store, inserts, alerts>>

\* A click in the CategoryFilter.  Setting the category it already has leaves
\* the dependency array unchanged and the effect does not run.
setCurrentCategory(cat) ==
  /\ mounted
  /\ IF cat = currentCategory
     THEN UNCHANGED vars
     ELSE /\ currentCategory' = cat
          /\ getFacts(cat)
          /\ UNCHANGED <<mounted, showForm, facts, formVars, store, inserts, alerts>>

\* The store answers a select.
StoreSelect(r) ==
  /\ r \in Sent(selects)
  /\ \E rows \in QueryResults(store, r.category) :
       selects' = Replace(selects, r, Answered(r, rows))
  /\ UNCHANGED <<mounted, appVars, formVars, isUpdating, store, inserts, updates,
                 alerts, requestCount>>

\* setFacts(facts) without the test of error.
FetchedFactsUnchecked(error, data, fs) == data

\* if (!error) setFacts(facts)
FetchedFacts(error, data, fs) == IF ~error THEN data ELSE fs

\* else alert('There was a problem getting data')
Alerted(error, n) == IF ~error THEN n ELSE n + 1

\* getFacts() after its await with the cleanup flag the effect does not have:
\* the answer of a fetch for a category that is no longer selected is dropped.
getFactsResumeLatest(r, error) ==
  /\ CanResume(selects, r, error)
  /\ selects' = selects (-) SetToBag({r})
  /\ facts' = IF r.category = currentCategory
               THEN FetchedFacts(error, r.data, facts)
               ELSE facts
  /\ alerts' = Alerted(error, alerts)
  /\ isLoading' = FALSE
  /\ isUpdating' = isUpdating \cap MountedIds(facts', FALSE)
  /\ updates' = Rerendered(updates, MountedIds(facts', FALSE))
  /\ UNCHANGED <<mounted, showForm, currentCategory, formVars, store, inserts,
                 requestCount>>

\* getFacts() after its await.
getFactsResume(r, error) ==
  /\ CanResume(selects, r, error)
  /\ selects' = selects (-) SetToBag({r})
  /\ facts' = FetchedFacts(error, r.data, facts)
  /\ alerts' = Alerted(error, alerts)
  /\ isLoading' = FALSE
  /\ isUpdating' = isUpdating \cap MountedIds(facts', FALSE)
  /\ updates' = Rerendered(updates, MountedIds(facts', FALSE))
  /\ UNCHANGED <<mounted, showForm, currentCategory, formVars, store, inserts,
                 requestCount>>

\* -------------------------------------------------- the form (NewFactForm)

\* Header button: setShowForm((show) => !show).  Closing unmounts the form
\* and drops its state; opening mounts a form in its initial state.
toggleForm ==
  /\ mounted
  /\ showForm' = ~showForm
  /\ text' = 0
  /\ source' = <<>>
  /\ category' = ""
  /\ isUploading' = FALSE
  /\ UNCHANGED <<mounted, facts, isLoading, currentCategory, isUpdating, store,
                 selects, inserts, updates, alerts, requestCount>>

\* onChange of the three inputs, which are disabled while isUploading.
setText(t) ==
  /\ showForm /\ ~isUploading
  /\ text' = t
  /\ UNCHANGED <<mounted, appVars, source, category, isUploading, isUpdating,
                 store, selects, inserts, updates, alerts, requestCount>>

setSource(s) ==
  /\ showForm /\ ~isUploading
  /\ source' = s
  /\ UNCHANGED <<mounted, appVars, text, category, isUploading, isUpdating,
                 store, selects, inserts, updates, alerts, requestCount>>

setCategory(c) ==
  /\ showForm /\ ~isUploading
  /\ category' = c
  /\ UNCHANGED <<mounted, appVars, text, source, isUploading, isUpdating,
                 store, selects, inserts, updates, alerts, requestCount>>

\* handleSubmit() up to its await; the Post button is disabled while
\* isUploading.  Invalid input falls through the if: nothing happens.
handleSubmit ==
  /\ showForm /\ ~isUploading
  /\ IF SubmitValid(text, source, category)
     THEN /\ isUploading' = TRUE
          /\ inserts' = inserts (+) SetToBag({InsertCall(text, source, category)})
          /\ requestCount' = requestCount + 1
          /\ UNCHANGED <<mounted, appVars, text, source, category, isUpdating,
                         store, selects, updates, alerts>>
     ELSE UNCHANGED vars

\* The store carries out an insert.
StoreInsert(r) ==
  /\ r \in Sent(inserts)
  /\ LET row == InsertedRow(store, r.text, r.source, r.category)
     IN  /\ store' = Append(store, row)
         /\ inserts' = Replace(inserts, r, Answered(r, <<row>>))
  /\ UNCHANGED <<mounted, appVars, formVars, isUpdating, selects, updates,
                 alerts, requestCount>>

\* The same with the rows tested in place of error.
SubmittedFactsByData(error, data, fs) ==
  IF data # <<>> THEN Prepend(data[1], fs) ELSE fs

\* if (!error) setFacts((facts) => [newFact[0], ...facts])
SubmittedFacts(error, data, fs) == IF ~error THEN Prepend(data[1], fs) ELSE fs

\* handleSubmit() after its await: setIsUploading(false), the list, the three
\* fields, then setShowForm(false), which unmounts whatever form is on screen
\* (the one that submitted, or one opened since).
handleSubmitResume(r, error) ==
  /\ CanResume(inserts, r, error)
  /\ inserts' = inserts (-) SetToBag({r})
  /\ isUploading' = FALSE
  /\ facts' = SubmittedFacts(error, r.data, facts)
  /\ text' = 0
  /\ source' = <<>>
  /\ category' = ""
  /\ showForm' = FALSE
  /\ isUpdating' = isUpdating \cap MountedIds(facts', isLoading)
  /\ updates' = Rerendered(updates, MountedIds(facts', isLoading))
  /\ UNCHANGED <<mounted, isLoading, currentCategory, store, selects, alerts,
                 requestCount>>

\* ----------------------------------------------------- voting (Fact)

\* The three vote buttons of entry p are disabled={isUpdating}.  Two entries
\* with one key are outside what React defines for keyed lists: which of the
\* two components holds the flag is not determined, so either may be enabled.
VoteEnabled(p) ==
  /\ ~isLoading
  /\ p \in 1..Len(facts)
  /\ \/ facts[p].id \notin isUpdating
     \/ DuplicateKey(facts, facts[p].id)

\* handleVote(columnName) of entry p with an optimistic update: the entry
\* shows the new value before the call resolves.
handleVoteOptimistic(p, columnName) ==
  /\ mounted
  /\ VoteEnabled(p)
  /\ facts' = [facts EXCEPT ![p][columnName] = @ + 1]
  /\ isUpdating' = isUpdating \cup {facts[p].id}
  /\ updates' = updates (+)
       SetToBag({UpdateCall(facts[p].id, columnName, VoteValue(facts[p], columnName))})
  /\ requestCount' = requestCount + 1
  /\ UNCHANGED <<mounted, showForm, isLoading, currentCategory, formVars, store,
                 selects, inserts, alerts>>

\* handleVote(columnName) of entry p up to its await.
handleVote(p, columnName) ==
  /\ mounted
  /\ VoteEnabled(p)
  /\ isUpdating' = isUpdating \cup {facts[p].id}
  /\ updates' = updates (+)
       SetToBag({UpdateCall(facts[p].id, columnName, VoteValue(facts[p], columnName))})
  /\ requestCount' = requestCount + 1
  /\ UNCHANGED <<mounted, appVars, formVars, store, selects, inserts, alerts>>

\* The store carries out an update and answers with the row as it then is.
StoreUpdate(r) ==
  /\ r \in Sent(updates)
  /\ store' = UpdatedStore(store, r.id, r.columnName, r.value)
  /\ updates' = Replace(updates, r, Answered(r, <<store'[r.id]>>))
  /\ UNCHANGED <<mounted, appVars, formVars, isUpdating, selects, inserts,
                 alerts, requestCount>>

\* The same with the rows tested in place of error.
VotedFactsByData(error, id, data, fs) ==
  IF data # <<>> THEN Patch(fs, id, data[1]) ELSE fs

\* if (!error) setFacts((facts) => facts.map(...))
VotedFacts(error, id, data, fs) == IF ~error THEN Patch(fs, id, data[1]) ELSE fs

\* handleVote() after its await.  setIsUpdating(false) reaches the component
\* that started the call only if it is still mounted.
handleVoteResume(r, error) ==
  /\ CanResume(updates, r, error)
  /\ updates' = updates (-) SetToBag({r})
  /\ isUpdating' = IF r.live THEN isUpdating \ {r.id} ELSE isUpdating
  /\ facts' = VotedFacts(error, r.id, r.data, facts)
  /\ UNCHANGED <<mounted, showForm, isLoading, currentCategory, formVars, store,
                 selects, inserts, alerts, requestCount>>

\* ------------------------------------------------------------------- Next

Selectable == {"all"} \cup UsedCategories

\* The feed and the votes; the user starts fewer than `budget` remote calls.
FeedSteps(budget) ==
  \/ Mount
  \/ \E cat \in Selectable : requestCount < budget /\ setCurrentCategory(cat)
  \/ \E r \in BagToSet(selects) : StoreSelect(r)
  \/ \E r \in BagToSet(selects), error \in BOOLEAN : getFactsResume(r, error)
  \/ \E p \in 1..Len(facts), columnName \in Columns :
       requestCount < budget /\ handleVote(p, columnName)
  \/ \E r \in BagToSet(updates) : StoreUpdate(r)
  \/ \E r \in BagToSet(updates), error \in BOOLEAN : handleVoteResume(r, error)

\* The form but for the typing.
FormSteps(budget) ==
  \/ toggleForm
  \/ requestCount < budget /\ handleSubmit
  \/ \E r \in BagToSet(inserts) : StoreInsert(r)
  \/ \E r \in BagToSet(inserts), error \in BOOLEAN : handleSubmitResume(r, error)

\* The user fills the form in from left to right with values that pass the
\* validation.
TypeValid ==
  \/ \E t \in ValidTexts : text = 0 /\ setText(t)
  \/ \E s \in ValidSources : text # 0 /\ source = <<>> /\ setSource(s)
  \/ \E c \in PostCategories : source # <<>> /\ category = "" /\ setCategory(c)

\* The user types anything into any field.
TypeAny ==
  \/ \E t \in InputTexts : setText(t)
  \/ \E s \in InputSources : setSource(s)
  \/ \E c \in InputCategories : setCategory(c)

\* The whole page.
Next == FeedSteps(MaxRequests) \/ FormSteps(MaxRequests) \/ TypeValid

Spec == Init /\ [][Next]_vars

\* Every fetch resolves: a continuation waiting on a select is run once the
\* select has an outcome, and it always can have one (an answer or an error).
Resolve == \E r \in BagToSet(selects), error \in BOOLEAN : getFactsResume(r, error)

SpecFair == Spec /\ WF_vars(Resolve)

\* The page with the form left closed.
NextFeed == FeedSteps(MaxRequests + 1)

SpecFeed == Init /\ [][NextFeed]_vars

\* The page with the category and the votes left alone, and one call less.
NextForm ==
  \/ Mount
  \/ \E r \in BagToSet(selects) : StoreSelect(r)
  \/ \E r \in BagToSet(selects), error \in BOOLEAN : getFactsResume(r, error)
  \/ FormSteps(MaxRequests - 1)
  \/ TypeAny

SpecForm == Init /\ [][NextForm]_vars

\* ------------------------------------------------------------------ claims

Fields == {"id", "text", "source", "category"} \cup Columns

Ascending(fs) ==
  \A p, q \in 1..Len(fs) :
    p < q => fs[p].votesInteresting <= fs[q].votesInteresting

NoCalls == selects = EmptyBag /\ inserts = EmptyBag /\ updates = EmptyBag

VoteCarries ==
  \A p \in 1..Len(facts), columnName \in Columns :
    handleVote(p, columnName) =>
      \E r \in BagToSet(updates') :
        /\ CopiesIn(r, updates') = CopiesIn(r, updates) + 1
        /\ r.id = facts[p].id
        /\ r.columnName = columnName
        /\ r.value = facts[p][columnName] + 1

\* C2 as stated: after a vote resumes without error, every entry with the
\* identifier shows the carried value in the voted column and all its other
\* fields as they were displayed just before.
C2_VoteSuccessOriginal ==
  [][/\ VoteCarries
     /\ \A r \in BagToSet(updates) :
          handleVoteResume(r, FALSE) =>
            \A p \in 1..Len(facts) :
              facts[p].id = r.id =>
                /\ facts'[p][r.columnName] = r.value
                /\ \A f \in Fields \ {r.columnName} : facts'[p][f] = facts[p][f]]_vars

\* C2 amended: after a vote resumes without error, every entry with the
\* identifier shows the carried value in the voted column, its identifier,
\* text, source and category as before, and in the two other vote columns
\* the values of the row the store returned.
C2_VoteSuccess ==
  [][/\ VoteCarries
     /\ \A r \in BagToSet(updates) :
          handleVoteResume(r, FALSE) =>
            \A p \in 1..Len(facts) :
              facts[p].id = r.id =>
                /\ facts'[p][r.columnName] = r.value
                /\ \A f \in Fields \ Columns : facts'[p][f] = facts[p][f]
                /\ \A f \in Columns \ {r.columnName} :
                     facts'[p][f] = r.data[1][f]]_vars

\* The fetch at mount and one vote on votesFalse, which has resumed without
\* error: the entry shows the stored value, one more than the 0 it had.
C2_Witness ==
  /\ requestCount = 2 /\ updates = EmptyBag /\ ~isLoading
  /\ \E p \in 1..Len(facts) :
       /\ facts[p].votesFalse = 1
       /\ store[facts[p].id] = facts[p]

\* C3: when a valid submission resumes without error, the row the store
\* returned is first in the visible list and is followed by the entries the
\* list held before, in their order; the row carries the identifier the
\* store gave it, the submitted text, source and category, and 0 in the three
\* vote columns; the three fields are empty and the form is closed.
C3_SubmitSuccess ==
  [][\A r \in BagToSet(inserts) :
       handleSubmitResume(r, FALSE) =>
         /\ Len(facts') = Len(facts) + 1
         /\ \A p \in 1..Len(facts) : facts'[p + 1] = facts[p]
         /\ facts'[1].id \in 1..Len(store)
         /\ facts'[1] = NewRow(facts'[1].id, r.text, r.source, r.category)
         /\ \A f \in Fields \ Columns : store[facts'[1].id][f] = facts'[1][f]
         /\ text' = 0 /\ source' = <<>> /\ category' = ""
         /\ ~showForm']_vars

\* The feed was switched to "technology" and shows row 1; a science fact was
\* posted and stands before it (no fetch returns rows 3 and 1 without row 2).
C3_Witness ==
  /\ inserts = EmptyBag /\ ~showForm
  /\ Len(facts) = 2
  /\ facts[1].id = 3 /\ facts[1].category = "science"
  /\ facts[2].id = 1

\* C4: the disputed flag of every displayed fact is true exactly when
\* votesInteresting + votesMindblowing < votesFalse; it is a function of the
\* current counters, and a row holds no field for it.
C4_Disputed ==
  \A p \in 1..Len(facts) :
    /\ isDisputed(facts[p]) =
         (facts[p].votesInteresting + facts[p].votesMindblowing < facts[p].votesFalse)
    /\ DOMAIN facts[p] = Fields

\* A displayed fact whose false votes equal its other votes (not disputed)
\* beside one whose false votes exceed them (disputed).
C4_Witness ==
  \E p, q \in 1..Len(facts) :
    /\ facts[p].votesFalse = 1
    /\ facts[p].votesInteresting + facts[p].votesMindblowing = 1
    /\ ~isDisputed(facts[p])
    /\ facts[q].votesFalse = 1
    /\ facts[q].votesInteresting + facts[q].votesMindblowing = 0
    /\ isDisputed(facts[q])

\* An absolute http or https URL, as the claim words it.
HttpSource(s) == Len(s) >= 3 /\ s[1] \in {"http", "https"} /\ s[2] = ":"

InvalidInput ==
  \/ text = 0
  \/ ~HttpSource(source)
  \/ category = ""
  \/ text > MaxTextLength

\* C5: a submission with an empty text, a source that is no absolute
\* http/https URL, an empty category or a text over 1000 characters starts no
\* insert and changes neither the list, the fields, the form switch nor the
\* uploading flag.
C5_InvalidSubmit ==
  [][handleSubmit /\ InvalidInput =>
       UNCHANGED <<inserts, store, facts, text, source, category, showForm,
                   isUploading, requestCount>>]_vars

\* The form is open on a text of 1001 characters with a valid source and
\* category, a list on screen, and Post can be pressed.
C5_Witness ==
  /\ showForm /\ ~isUploading
  /\ text = MaxTextLength + 1 /\ source = HttpsSource /\ category = "science"
  /\ Len(facts) = 2
  /\ inserts = EmptyBag /\ requestCount = 1

\* C6: when a fetch resumes with an error, one alert is raised, the visible
\* list stays as it was and the loading flag is false.
C6_FetchFailure ==
  [][\A r \in BagToSet(selects) :
       getFactsResume(r, TRUE) =>
         /\ alerts' = alerts + 1
         /\ facts' = facts
         /\ isLoading' = FALSE]_vars

\* A list is on screen, a later fetch has failed, nothing is loading.
C6_Witness ==
  /\ alerts = 1 /\ requestCount = 2 /\ selects = EmptyBag
  /\ currentCategory # "all"
  /\ Len(facts) = 2
  /\ ~isLoading

\* C7: when the insert of a valid submission resumes with an error, the
\* visible list stays as it was, the three fields are empty and the form is
\* closed.
C7_SubmitFailure ==
  [][\A r \in BagToSet(inserts) :
       handleSubmitResume(r, TRUE) =>
         /\ facts' = facts
         /\ text' = 0 /\ source' = <<>> /\ category' = ""
         /\ ~showForm']_vars

\* Two calls were started and the category never changed, so they are the
\* fetch at mount, still pending with nothing on screen, and one insert.  The
\* store carried the insert out and its call is over, yet the list is as
\* empty as before: the insert resumed with an error.
C7_Witness ==
  /\ requestCount = 2 /\ currentCategory = "all"
  /\ BagCardinality(selects) = 1 /\ inserts = EmptyBag /\ updates = EmptyBag
  /\ Len(store) = 3
  /\ facts = <<>>
  /\ ~showForm

\* C8: when a vote resumes with an error, the visible list stays as it was,
\* no alert is raised, and nothing else changes but the updating flag of the
\* component that started the call.
C8_VoteFailure ==
  [][\A r \in BagToSet(updates) :
       handleVoteResume(r, TRUE) =>
         /\ facts' = facts
         /\ alerts' = alerts
         /\ isUpdating' \subseteq isUpdating
         /\ isUpdating \ isUpdating' \subseteq {r.id}
         /\ r.live => r.id \notin isUpdating'
         /\ UNCHANGED <<showForm, isLoading, currentCategory, formVars, store,
                        selects, inserts>>]_vars

\* The fetch at mount and one vote: the store holds the vote, the call is
\* over, the entry still shows 0 and its buttons are enabled again.
C8_Witness ==
  /\ requestCount = 2 /\ NoCalls /\ alerts = 0
  /\ isUpdating = {}
  /\ \E p \in 1..Len(facts) :
       /\ facts[p].votesFalse = 0
       /\ store[facts[p].id].votesFalse = 1

\* C9 as stated: no displayed counter of an identifier that stays in the
\* visible list ever goes down.
C9_MonotoneOriginal ==
  [][\A p \in 1..Len(facts), q \in 1..Len(facts') :
       facts'[q].id = facts[p].id =>
         \A f \in Columns : facts'[q][f] >= facts[p][f]]_vars

\* C10 as stated: while an update call of a fact is pending, the buttons of
\* its entry on screen are disabled, and no fact has two pending calls.
C10_VoteDisabledOriginal ==
  /\ \A p \in 1..Len(facts) :
       (\E r \in BagToSet(updates) : r.id = facts[p].id) => ~VoteEnabled(p)
  /\ \A r \in BagToSet(updates) : CopiesIn(r, updates) = 1
  /\ \A r1, r2 \in BagToSet(updates) : r1.id = r2.id => r1 = r2

\* C11 as stated: while an insert call is pending, a form on screen is
\* disabled (it takes no submission), and no two insert calls are pending at
\* once.
C11_SingleInsertOriginal ==
  /\ inserts # EmptyBag /\ showForm => isUploading
  /\ BagCardinality(inserts) <= 1

\* A step that starts a fetch: the effect of the first render, or a click on
\* a category other than the selected one.
FetchStarts ==
  \/ Mount
  \/ \E cat \in Selectable \ {currentCategory} : setCurrentCategory(cat)

\* C12: every step that starts a fetch sets the loading flag and sends the
\* select; every resume of a fetch, with or without error, clears the flag;
\* the flag is set only while a select is pending, so when every fetch has
\* resolved it is clear; once clear it stays clear until a step that changes
\* the category (or the first render); and, every fetch resolving, a set flag
\* is eventually clear.
C12_Loading ==
  /\ [][FetchStarts => isLoading' /\ BagCardinality(selects') = BagCardinality(selects) + 1]_vars
  /\ [][\A r \in BagToSet(selects), error \in BOOLEAN :
          getFactsResume(r, error) => ~isLoading']_vars
  /\ [](isLoading => selects # EmptyBag)
  /\ [][~isLoading /\ isLoading' => ~mounted \/ currentCategory' # currentCategory]_vars
  /\ [](isLoading => <>(~isLoading))

\* The fetch at mount and the fetch of a category change have both resumed,
\* one of them with an error: the flag is clear and nothing is pending.
C12_Witness ==
  /\ requestCount = 2 /\ currentCategory # "all"
  /\ selects = EmptyBag /\ alerts = 1
  /\ ~isLoading /\ mounted

\* The select calls a step sends.
NewSelects ==
  {r \in Sent(selects') : CopiesIn(r, selects') > CopiesIn(r, selects)}

\* C13: the first render sends exactly one select, for "all"; a step that
\* changes the selected category sends exactly one select, for the new
\* category; no other step sends a select, in particular not a click on the
\* selected category, a toggle of the form, a submission or a vote.
C13_FetchIssued ==
  [][/\ Mount =>
          currentCategory = "all" /\ selects' = selects (+) SetToBag({SelectCall("all")})
     /\ mounted /\ currentCategory' # currentCategory =>
          selects' = selects (+) SetToBag({SelectCall(currentCategory')})
     /\ mounted /\ currentCategory' = currentCategory => NewSelects = {}
     /\ setCurrentCategory(currentCategory) => selects' = selects
     /\ toggleForm \/ handleSubmit => selects' = selects
     /\ \A p \in 1..Len(facts), columnName \in Columns :
          handleVote(p, columnName) => selects' = selects]_vars

\* Two calls were started, both selects and both still pending: the one of
\* the first render for "all" and the one of the click on "technology".  The
\* form has been opened since and no third call exists.
C13_Witness ==
  /\ requestCount = 2 /\ currentCategory = "technology"
  /\ BagCardinality(selects) = 2
  /\ \E r \in BagToSet(selects) : r.category = "all"
  /\ \E r \in BagToSet(selects) : r.category = "technology"
  /\ showForm

\* C14: a fetch whose category is no longer the selected one is not
\* cancelled: when it resumes without error, also after the fetch for the
\* selected category has resumed, the visible list becomes its rows and the
\* selected category stays as it is.
C14_StaleFetch ==
  [][\A r \in BagToSet(selects) :
       getFactsResume(r, FALSE) /\ r.category # currentCategory =>
         /\ facts' = r.data
         /\ currentCategory' = currentCategory]_vars

\* Only the fetch at mount and the fetch for "technology" were started and
\* both have resumed without error; "technology" is selected and the list on
\* screen holds a science row beside a technology row: it is the answer for
\* "all", which came last.
C14_Witness ==
  /\ requestCount = 2 /\ selects = EmptyBag /\ ~isLoading /\ alerts = 0
  /\ currentCategory = "technology"
  /\ Len(facts) = 2
  /\ \E p \in 1..Len(facts) : facts[p].category = "science"
  /\ \E p \in 1..Len(facts) : facts[p].category = "technology"

\* C15: a vote sends the displayed value of the counter plus one, whatever
\* the store holds and whatever calls are pending; the store writes the value
\* it was sent, so an update that carries the value the store already holds
\* adds nothing; and a vote that resumes without error shows the value it
\* sent.  Two votes sent from one displayed value v therefore leave v + 1 in
\* the store and on screen.
C15_LostUpdate ==
  [][/\ \A p \in 1..Len(facts), columnName \in Columns :
          handleVote(p, columnName) =>
            updates' = updates (+)
              SetToBag({UpdateCall(facts[p].id, columnName, facts[p][columnName] + 1)})
     /\ \A r \in BagToSet(updates) :
          StoreUpdate(r) =>
            /\ store'[r.id][r.columnName] = r.value
            /\ store[r.id][r.columnName] = r.value => store' = store
     /\ \A r \in BagToSet(updates) :
          handleVoteResume(r, FALSE) =>
            \A p \in 1..Len(facts) :
              facts[p].id = r.id => facts'[p][r.columnName] = r.value]_vars

\* Two update calls for one counter of one fact, both carrying the value 1
\* (sent from a displayed 0), have both been carried out by the store and
\* wait to resume: the store holds 1, not 2.
C15_Witness ==
  \E r1, r2 \in BagToSet(updates) :
    /\ r1 # r2 \/ CopiesIn(r1, updates) = 2
    /\ r1.phase = "answered" /\ r2.phase = "answered"
    /\ r1.id = r2.id /\ r1.columnName = r2.columnName
    /\ r1.value = 1 /\ r2.value = 1
    /\ store[r1.id][r1.columnName] = 1

\* The list after the answers of the update calls r1 and then r2 are applied.
AppliedInOrder(r1, r2) ==
  VotedFacts(FALSE, r2.id, r2.data, VotedFacts(FALSE, r1.id, r1.data, facts))

\* C16: when a vote on identifier i resumes, with or without error, the list
\* keeps its length, every position keeps its identifier, and every entry
\* with another identifier stays as it was (so a list without i is
\* unchanged); and for two answered votes on distinct identifiers the list
\* after both answers is the same in either order of arrival.
C16_VoteFrame ==
  /\ [][\A r \in BagToSet(updates), error \in BOOLEAN :
          handleVoteResume(r, error) =>
            /\ Len(facts') = Len(facts)
            /\ \A p \in 1..Len(facts) :
                 /\ facts'[p].id = facts[p].id
                 /\ facts[p].id # r.id => facts'[p] = facts[p]]_vars
  /\ [](\A r1, r2 \in BagToSet(updates) :
          /\ r1.phase = "answered" /\ r2.phase = "answered"
          /\ r1.id # r2.id
          => AppliedInOrder(r1, r2) = AppliedInOrder(r2, r1))

\* Votes on two facts of the list were pending at once and the store carried
\* both out.  One has resumed: its entry shows the stored 1, and the entry of
\* the other, whose answer is still on its way, is as it was.
C16_Witness ==
  /\ requestCount = 3 /\ currentCategory = "all" /\ alerts = 0
  /\ BagCardinality(updates) = 1
  /\ \E r \in BagToSet(updates), p, q \in 1..Len(facts) :
       /\ r.phase = "answered" /\ r.live
       /\ facts[p].id = r.id
       /\ facts[p][r.columnName] = r.value - 1
       /\ facts[q].id # r.id
       /\ facts[q].votesFalse = 1
       /\ store[facts[q].id] = facts[q]

\* A step in which a remote call resumes without error and the list changes
\* the way of that call: a fetch puts its rows in place of the list, an
\* insert puts its row before the list, a vote puts its row in place of the
\* entries with its identifier.
SuccessfulResolution ==
  \/ \E r \in BagToSet(selects) : getFactsResume(r, FALSE) /\ facts' = r.data
  \/ \E r \in BagToSet(inserts) :
       handleSubmitResume(r, FALSE) /\ facts' = <<r.data[1]>> \o facts
  \/ \E r \in BagToSet(updates) :
       /\ handleVoteResume(r, FALSE)
       /\ Len(facts') = Len(facts)
       /\ \A p \in 1..Len(facts) :
            facts'[p] # facts[p] => facts[p].id = r.id /\ facts'[p] = r.data[1]

\* A step of the user: the first render, a click on a category, the header
\* button, a key in a field, Post, a vote button.
UserStep ==
  \/ Mount
  \/ \E cat \in Selectable : setCurrentCategory(cat)
  \/ toggleForm
  \/ \E t \in InputTexts : setText(t)
  \/ \E s \in InputSources : setSource(s)
  \/ \E c \in InputCategories : setCategory(c)
  \/ handleSubmit
  \/ \E p \in 1..Len(facts), columnName \in Columns : handleVote(p, columnName)

\* A remote call resumes with an error.
FailedResolution ==
  \/ \E r \in BagToSet(selects) : getFactsResume(r, TRUE)
  \/ \E r \in BagToSet(inserts) : handleSubmitResume(r, TRUE)
  \/ \E r \in BagToSet(updates) : handleVoteResume(r, TRUE)

\* C17: the visible list changes only in a step in which a remote call
\* resumes without error; the steps of the user (which start the calls) and
\* the resumes with an error leave it as it is.
C17_ListFrame ==
  [][/\ facts' # facts => SuccessfulResolution
     /\ UserStep => facts' = facts
     /\ FailedResolution => facts' = facts]_vars

\* The list of the first fetch is still the list: since it came a vote was
\* sent (its entry shows the value before the vote), "technology" was
\* clicked and its fetch is pending, and the form was opened and typed into.
C17_Witness ==
  /\ requestCount = 3 /\ currentCategory = "technology" /\ isLoading
  /\ showForm /\ text # 0
  /\ Len(facts) = 2
  /\ \E r \in BagToSet(updates), p \in 1..Len(facts) :
       /\ r.phase = "sent"
       /\ facts[p].id = r.id
       /\ facts[p][r.columnName] = r.value - 1

\* C18 as stated: the identifiers of the entries of the visible list are
\* pairwise distinct.
C18_DistinctIdsOriginal ==
  \A p, q \in 1..Len(facts) : p # q => facts[p].id # facts[q].id

\* C19 as stated: while a select is pending the loading flag is set.
C19_LoadingWhilePendingOriginal ==
  selects # EmptyBag => isLoading

\* Every entry of the visible list has the selected category, unless "all"
\* is selected.
Filtered ==
  \/ currentCategory = "all"
  \/ \A p \in 1..Len(facts) : facts[p].category = currentCategory

\* C20 as stated, for the submissions and votes it names: in a state in
\* which every fetch that was started has resumed without error (the one
\* started at the last change of category among them) and every entry has
\* the selected category, a submission or a vote that resumes without error
\* leaves every entry with the selected category.
C20_FilteredOriginal ==
  [][/\ mounted /\ selects = EmptyBag /\ alerts = 0
     /\ Filtered
     /\ \/ \E r \in BagToSet(inserts) : handleSubmitResume(r, FALSE)
        \/ \E r \in BagToSet(updates) : handleVoteResume(r, FALSE)
     => Filtered']_vars

====
